---- MODULE Spec2Model ----
(***************************************************************************)
(* A model of c3chatbot.py: the bounded conversation memory (remember,     *)
(* reset_memory), the Safe SQL helper (execute_sql) and the reply          *)
(* generation with function calling (generate_reply).                      *)
(*                                                                         *)
(* Strings are sequences of one-character strings, so that strip, lower    *)
(* and startswith are computed character by character.  Python lists are   *)
(* objects on a heap: convo maps a psid to a list identity, and a thread   *)
(* may hold a reference to a list that convo no longer maps.              *)
(***************************************************************************)
EXTENDS Integers, Sequences, FiniteSets, TLC

\* ------------------------------------------------------------------ bounds

\* Direct calls of remember and reset_memory made in one behaviour.
MaxCalls == 3

\* Messages handled (generate_reply or reset) in one behaviour.
MaxReplies == 1

\* Store operations called by the concurrent threads in one behaviour.
MaxConcCalls == 3

\* The largest k top_chunks is called with; the corpus has four chunks.
MaxK == 5

\* The largest number of words in a message given to intent alone.
MaxWords == 2

\* ------------------------------------------------------- program constants

MAX_TURNS == 10

\* ------------------------------------------------------------------ values

Psids == {"u1", "u2"}
Threads == {1, 2}
Roles == {"user", "assistant"}

\* List identities on the heap; NoList is "the key is absent".
NoList == 0
NumLists == Cardinality(Psids) + Cardinality(Threads) + 1
ListIds == 1..NumLists

Digit == <<"0", "1", "2", "3", "4", "5", "6", "7", "8", "9">>

\* The text of the n-th turn of an earlier conversation / of the n-th call.
Tag(c, n) == <<c, Digit[(n \div 10) + 1], Digit[(n % 10) + 1]>>

Turn(r, x) == [role |-> r, text |-> x]

\* A history of n earlier turns, user and assistant alternating.
History(n) ==
    [i \in 1..n |-> Turn(IF i % 2 = 1 THEN "user" ELSE "assistant", Tag("h", i))]

\* Lengths of u1's history when the model starts (0: no key).
InitLens == {0, 2 * MAX_TURNS - 1, 2 * MAX_TURNS}

\* The slice forgotten: nothing is trimmed.
LastN_NoTrim(s, n) == s

\* The slice taken from the wrong end: s[:n], which evicts the newest turns.
LastN_KeepOldest(s, n) == IF Len(s) > n THEN SubSeq(s, 1, n) ELSE s

\* Python's s[-n:] for n > 0: the last n elements, all of s when it is shorter.
LastN(s, n) == IF Len(s) > n THEN SubSeq(s, Len(s) - n + 1, Len(s)) ELSE s

\* ----------------------------------------------------------------- strings

Whitespace == {" ", "\t", "\n"}

UpperCase == <<"A", "B", "C", "D", "E", "F", "G", "H", "I", "J", "K", "L", "M",
               "N", "O", "P", "Q", "R", "S", "T", "U", "V", "W", "X", "Y", "Z">>
LowerCase == <<"a", "b", "c", "d", "e", "f", "g", "h", "i", "j", "k", "l", "m",
               "n", "o", "p", "q", "r", "s", "t", "u", "v", "w", "x", "y", "z">>

LowerChar(c) ==
    IF \E i \in 1..26 : UpperCase[i] = c
    THEN LowerCase[CHOOSE i \in 1..26 : UpperCase[i] = c]
    ELSE c

\* str.lower()
Lower(s) == [i \in 1..Len(s) |-> LowerChar(s[i])]

SetMin(S) == CHOOSE x \in S : \A y \in S : x <= y
SetMax(S) == CHOOSE x \in S : \A y \in S : y <= x

\* str.strip(): leading and trailing whitespace removed
Strip(s) ==
    LET keep == {i \in 1..Len(s) : s[i] \notin Whitespace}
    IN IF keep = {} THEN <<>> ELSE SubSeq(s, SetMin(keep), SetMax(keep))

\* str.startswith(p)
StartsWith(s, p) == Len(s) >= Len(p) /\ SubSeq(s, 1, Len(p)) = p

\* p in s
Contains(s, p) ==
    \E i \in 0..(Len(s) - Len(p)) : SubSeq(s, i + 1, i + Len(p)) = p

\* sep.join(xs)
RECURSIVE Join(_, _)
Join(sep, xs) ==
    IF Len(xs) = 0 THEN <<>>
    ELSE IF Len(xs) = 1 THEN xs[1]
    ELSE xs[1] \o sep \o Join(sep, Tail(xs))

\* Python's None where a string is expected.
NoneText == <<"None">>

\* ------------------------------------------------------- the intent router

CutoffWords == {<<"c", "u", "t", "-", "o", "f", "f">>,
                <<"c", "u", "t", "o", "f", "f">>,
                <<"p", "a", "m", "u", "t", "o", "l">>}
BillingWords == {<<"b", "i", "l", "l">>,
                 <<"p", "a", "y", "m", "e", "n", "t">>,
                 <<"b", "a", "l", "a", "n", "c", "e">>}
OutageWords == {<<"o", "u", "t", "a", "g", "e">>,
                <<"b", "r", "o", "w", "n", "o", "u", "t">>,
                <<"n", "o", " ", "p", "o", "w", "e", "r">>,
                <<"p", "o", "w", "e", "r", " ", "s", "i", "t", "u", "a", "t", "i", "o", "n">>}

\* The chain with the billing test before the cutoff test.
intent_BillingFirst(msg) ==
    LET txt == Lower(msg)
    IN IF \E w \in BillingWords : Contains(txt, w) THEN "billing"
       ELSE IF \E w \in CutoffWords : Contains(txt, w) THEN "cutoff"
       ELSE IF \E w \in OutageWords : Contains(txt, w) THEN "outage"
       ELSE "general"

intent(msg) ==
    LET txt == Lower(msg)
    IN IF \E w \in CutoffWords : Contains(txt, w) THEN "cutoff"
       ELSE IF \E w \in BillingWords : Contains(txt, w) THEN "billing"
       ELSE IF \E w \in OutageWords : Contains(txt, w) THEN "outage"
       ELSE "general"

\* The three fixed replies, each abbreviated to its first word.
CannedReply(c) ==
    CASE c = "cutoff" -> <<"H", "e", "r", "e">>
      [] c = "billing" -> <<"T", "o">>
      [] OTHER -> <<"F", "o", "r">>

\* The messages users send.
UserMsgs == {<<"C", "u", "t", "o", "f", "f", " ", "d", "a", "t", "e", "?">>,
             <<"M", "y", " ", "B", "I", "L", "L">>,
             <<"B", "r", "o", "w", "n", "o", "u", "t", " ", "n", "o", "w">>,
             <<"l", "o", "s", "s", "?">>}

\* The words of the messages given to intent alone, and the messages: one
\* to MaxWords words with a space between them.
Words == {<<"C", "u", "t", "O", "f", "f">>,
          <<"c", "u", "t", "-", "O", "F", "F">>,
          <<"P", "a", "m", "u", "t", "o", "l">>,
          <<"m", "y", " ", "B", "i", "l", "l">>,
          <<"B", "A", "L", "A", "N", "C", "E">>,
          <<"O", "u", "t", "a", "g", "e">>,
          <<"n", "o">>,
          <<"P", "o", "w", "e", "r">>,
          <<"h", "i">>}
IntentMsgs ==
    {Join(<<" ">>, ws) : ws \in UNION {[1..n -> Words] : n \in 1..MaxWords}}

\* ------------------------------------------------- the external services

\* The query strings the model may pass to execute_sql.
SqlInputs == {
    <<"D", "R", "O", "P", " ", "T", "A", "B", "L", "E", " ", "x">>,
    <<" ", " ", "S", "e", "l", "e", "c", "t", " ", "*", " ", "f", "r", "o", "m", " ", "F", "o", "o">>,
    <<"I", "N", "S", "E", "R", "T", " ", "I", "N", "T", "O", " ", "x", " ", "V", "A", "L", "U", "E", "S", " ", "(", "1", ")">>,
    <<"S", "E", "L", "E", "C", "T", " ", "1", ";", " ", "D", "R", "O", "P", " ", "T", "A", "B", "L", "E", " ", "x">>,
    <<"s", "e", "l", "e", "c", "t", " ", "a", " ", "i", "n", "t", "o", " ", "y", " ", "f", "r", "o", "m", " ", "x">>,
    <<"s", "e", "l", "e", "c">>,
    <<"x", " ", "s", "e", "l", "e", "c", "t", " ", "1">>,
    <<"\t", "S", "E", "L", "E", "C", "T", " ", "1", "\n">>,
    <<" ", " ">>}

\* A function call of a model response: its arguments are a JSON text that
\* is malformed, an object without "sql", or an object with "sql".
NoCall == [present |-> FALSE, json |-> "none", sql |-> <<>>]
FunctionCalls ==
    {[present |-> TRUE, json |-> "malformed", sql |-> <<>>],
     [present |-> TRUE, json |-> "no_sql", sql |-> <<>>]}
    \cup {[present |-> TRUE, json |-> "sql", sql |-> q] : q \in SqlInputs}

\* The answer texts the model writes.
Contents == {<<" ", "3", " ", "k", "W", "h", "\n">>}

\* resp.choices[0].message: text, a function call with no text, or a
\* function call that comes with text.
NoMessage == [content |-> NoneText, function_call |-> NoCall]
ModelMessages ==
    {[content |-> c, function_call |-> NoCall] : c \in Contents}
    \cup {[content |-> NoneText, function_call |-> fc] : fc \in FunctionCalls}
    \cup {[content |-> c,
           function_call |-> [present |-> TRUE, json |-> "sql",
                              sql |-> <<"s", "e", "l", "e", "c">>]] :
              c \in Contents}

\* ------------------------------------------------------ the embedding index

\* The corpus: knowledge_chunks, cut to four chunks, and the vector the
\* embedding service gave each at startup.  Vectors have two integer
\* coordinates.
knowledge_chunks == << <<"k", "1">>, <<"k", "2">>, <<"k", "3">>, <<"k", "4">> >>
vectors == << <<4, 0>>, <<0, 1>>, <<3, 3>>, <<-2, 0>> >>

ChunkIds == 1..Len(knowledge_chunks)

\* The vectors the embedding service may give a query.
QVecs == {<<1, 0>>, <<0, 2>>, <<-3, 0>>, <<0, -3>>, <<0, 1>>, <<-1, 0>>,
          <<1, 1>>, <<-2, 1>>}

\* np.dot
Dot(a, b) == a[1] * b[1] + a[2] * b[2]

\* The squared Euclidean distance IndexFlatL2 ranks by.
Dist2(a, b) == Dot(<<a[1] - b[1], a[2] - b[2]>>, <<a[1] - b[1], a[2] - b[2]>>)

\* cos >= 0.45 for cos = dot / (|a| * |b|).  With 0.45 = 9/20 this is
\* 20 * dot >= 9 * |a| * |b|: dot is positive and 400 * dot^2 >= 81 *
\* |a|^2 * |b|^2.
CosAtLeast(a, b) ==
    /\ Dot(a, b) > 0
    /\ 400 * Dot(a, b) * Dot(a, b) >= 81 * Dot(a, a) * Dot(b, b)

\* faiss_idx.search(qvec, k): I[0], the k nearest chunk indices, nearest
\* first, filled with -1 when the index holds fewer than k vectors.  Chunks
\* at equal distance come in either order.
SearchResults(q, k) ==
    LET n == Len(vectors)
        ranked == {p \in [1..n -> ChunkIds] :
                      /\ \A i, j \in 1..n : i # j => p[i] # p[j]
                      /\ \A i, j \in 1..n :
                            i < j => Dist2(vectors[p[i]], q) <= Dist2(vectors[p[j]], q)}
    IN {[i \in 1..k |-> IF i <= n THEN p[i] ELSE -1] : p \in ranked}

\* The loop without the similarity test: every hit but -1 is kept.
RECURSIVE FilterHits_NoThreshold(_, _)
FilterHits_NoThreshold(hits, q) ==
    IF Len(hits) = 0 THEN <<>>
    ELSE LET idx == Head(hits)
             rest == FilterHits_NoThreshold(Tail(hits), q)
         IN IF idx = -1 THEN rest ELSE <<knowledge_chunks[idx]>> \o rest

\* The loop of top_chunks over the hits: -1 is skipped, a hit is kept when
\* its cosine similarity to the query passes.
RECURSIVE FilterHits(_, _)
FilterHits(hits, q) ==
    IF Len(hits) = 0 THEN <<>>
    ELSE LET idx == Head(hits)
             rest == FilterHits(Tail(hits), q)
         IN IF idx = -1 THEN rest
            ELSE IF CosAtLeast(vectors[idx], q)
                 THEN <<knowledge_chunks[idx]>> \o rest
                 ELSE rest

\* One column of a returned row: its name, the Python type of its value and
\* the text of the value.
Field(c, k, v) == [col |-> c, kind |-> k, val |-> v]

\* The rows a SELECT returns, already zipped with the column names.
ResultSets ==
    {<<>>,
     << <<Field(<<"D">>, "date", <<"1", "/", "2">>),
          Field(<<"L">>, "float", <<"3", ".", "5">>)>> >>}

\* json.dumps of a string: the text between double quotes.
Quoted(x) == <<"\"">> \o x \o <<"\"">>

\* json.dumps(value, default=str): a number as it is, anything that is not
\* a JSON type through str() and then as a string.
DumpValue(f) == IF f.kind = "float" THEN f.val ELSE Quoted(f.val)

DumpRow(row) ==
    <<"{">> \o Join(<<",", " ">>,
                    [j \in 1..Len(row) |->
                        Quoted(row[j].col) \o <<":", " ">> \o DumpValue(row[j])])
           \o <<"}">>

\* json.dumps(result, default=str)
JsonDumps(rows) ==
    <<"[">> \o Join(<<",", " ">>, [i \in 1..Len(rows) |-> DumpRow(rows[i])])
           \o <<"]">>

\* str(e) of the exceptions execute_sql and args["sql"] raise.
ExcText(e) ==
    CASE e = "ValueError" -> <<"O", "n", "l", "y", " ", "S", "E", "L", "E", "C", "T">>
      [] e = "KeyError" -> <<"'", "s", "q", "l", "'">>
      [] e = "OperationalError" -> <<"c", "o", "n", "n">>
      [] e = "ProgrammingError" -> <<"s", "y", "n", "t", "a", "x">>
      [] e = "TypeError" -> <<"N", "o", "n", "e", "T", "y", "p", "e">>
      [] OTHER -> <<"d", "b">>

\* The warning without the description of the failure.
Warning_NoDescription(e) ==
    <<"!", " ", "S", "Q", "L", " ", "e", "r", "r", "o", "r", ":", " ">>

\* f"<warning sign> SQL error: {e}"
Warning(e) ==
    <<"!", " ", "S", "Q", "L", " ", "e", "r", "r", "o", "r", ":", " ">> \o ExcText(e)

\* The fixed head of the system message.
SystemHead == <<"K", "B", ":", "\n">>

VARIABLES
    convo,      \* convo: psid -> list identity, NoList when the key is absent
    heap,       \* the list objects: identity -> sequence of turns
    open_conns, \* connections get_db_conn opened and nothing closed
    frame,      \* per thread: the position and locals of the running call
    log,        \* ghost: per psid, the turns appended since the last reset
    base,       \* ghost: per psid, the stored sequence at the start
    trace,      \* ghost: the store operations called, in call order
    calls,      \* ghost: top-level calls started
    boot        \* how far the module-level code has run, and what it built

vars == <<convo, heap, open_conns, frame, log, base, trace, calls, boot>>

\* ----------------------------------------------------------------- startup

\* The environment variables the module reads and requires.
RequiredVars == {"FB_APP_ID", "FB_APP_SECRET", "PAGE_ACCESS_TOKEN", "VERIFY_TOKEN",
                 "OPENAI_API_KEY", "DB_HOST", "DB_NAME", "DB_USER", "DB_PASS"}
EnvVars == RequiredVars \cup {"NGROK_AUTH_TOKEN"}

\* The module-level code has run to the end and app.run serves requests:
\* env is the set of variables with a non-empty value, chunks the list
\* knowledge_chunks, vecs the list vectors, nvec the number of embeddings
\* of the corpus, ntotal the size of the index.
Serving ==
    [phase |-> "serving", env |-> EnvVars,
     chunks |-> knowledge_chunks, vecs |-> vectors,
     nvec |-> Len(knowledge_chunks), ntotal |-> Len(knowledge_chunks)]

\* if not NGROK_AUTH_TOKEN: raise RuntimeError
CheckNgrok ==
    /\ boot.phase = "check_ngrok"
    /\ boot' = [boot EXCEPT !.phase = IF "NGROK_AUTH_TOKEN" \in boot.env
                                     THEN "check_env" ELSE "aborted"]
    /\ UNCHANGED <<convo, heap, open_conns, frame, log, base, trace, calls>>

\* The check that lets missing variables pass.
CheckEnv_NoAbort ==
    /\ boot.phase = "check_env"
    /\ boot' = [boot EXCEPT !.phase = "embed"]
    /\ UNCHANGED <<convo, heap, open_conns, frame, log, base, trace, calls>>

\* missing = [k for k, v in {...}.items() if not v]
\* if missing: raise RuntimeError
CheckEnv ==
    /\ boot.phase = "check_env"
    /\ LET missing == {k \in RequiredVars : k \notin boot.env}
       IN boot' = [boot EXCEPT !.phase = IF missing # {} THEN "aborted"
                                        ELSE "embed"]
    /\ UNCHANGED <<convo, heap, open_conns, frame, log, base, trace, calls>>

\* emb_resp = openai_client.embeddings.create(input=knowledge_chunks, ...):
\* the call raises, or gives one embedding for each chunk; vectors = [...]
EmbedCorpus ==
    /\ boot.phase = "embed"
    /\ \/ boot' = [boot EXCEPT !.phase = "aborted"]
       \/ boot' = [boot EXCEPT !.phase = "index", !.vecs = vectors,
                               !.nvec = Len(knowledge_chunks)]
    /\ UNCHANGED <<convo, heap, open_conns, frame, log, base, trace, calls>>

\* faiss_idx = faiss.IndexFlatL2(dim); faiss_idx.add(np.stack(vectors));
\* the rest of the module defines functions, and app.run starts serving
BuildIndex ==
    /\ boot.phase = "index"
    /\ boot' = [boot EXCEPT !.phase = "serving", !.ntotal = boot.nvec]
    /\ UNCHANGED <<convo, heap, open_conns, frame, log, base, trace, calls>>

\* ------------------------------------------------------------------ frames

\* The locals of a call (pc to answer), and what is known of the last call
\* once it has ended (outcome to prior): how it ended, the calls it made to
\* the model (nreq, sent), the Gateway (ngw), the embedding service (nemb)
\* and the index (nsearch), the exception its except clause caught, and the
\* user's stored sequence when it was entered (prior).
IdleFrame ==
    [pc |-> "idle", op |-> "none", psid |-> "u1", user_msg |-> <<>>,
     role |-> "user", text |-> <<>>, ret |-> "idle",
     lst |-> NoList, sl |-> <<>>, iter |-> NoList, idx |-> 0,
     chunks |-> <<>>, messages |-> <<>>, msg |-> NoMessage, args |-> NoCall,
     sql |-> <<>>, conn |-> "none", executed |-> <<>>, result |-> <<>>,
     answer |-> <<>>,
     outcome |-> "none", exc |-> "none", reply |-> <<>>, path |-> "none",
     nreq |-> 0, ngw |-> 0, nemb |-> 0, nsearch |-> 0, caught |-> "none",
     sent |-> <<>>, prior |-> <<>>,
     k |-> 0, qvec |-> <<0, 0>>, hits |-> <<>>, emb_failed |-> FALSE,
     category |-> "none", again |-> FALSE]

\* The list identities some thread or the store still refers to.
Referenced(c, f) ==
    {c[u] : u \in Psids} \cup {f[t].lst : t \in Threads}
                         \cup {f[t].iter : t \in Threads}

\* Unreferenced list objects are freed (reference counting).
Sweep(h, c, f) ==
    [i \in ListIds |-> IF i \in Referenced(c, f) THEN h[i] ELSE <<>>]

\* The identity a newly created list gets.
FreshList(c, f) ==
    CHOOSE i \in ListIds :
        /\ i \notin Referenced(c, f)
        /\ \A j \in ListIds : j \notin Referenced(c, f) => i <= j

\* The stored sequence of a user, empty when the key is absent.
Stored(u) == IF convo[u] = NoList THEN <<>> ELSE heap[convo[u]]

\* The call of thread t ends in frames f: its locals are gone, the outcome
\* is kept.
FinishFrom(f, t, o, e, r) ==
    [f EXCEPT ![t] =
        [IdleFrame EXCEPT !.op = f[t].op, !.psid = f[t].psid,
                          !.user_msg = f[t].user_msg,
                          !.path = f[t].path, !.nreq = f[t].nreq,
                          !.ngw = f[t].ngw, !.nemb = f[t].nemb,
                          !.nsearch = f[t].nsearch, !.caught = f[t].caught,
                          !.sent = f[t].sent, !.prior = f[t].prior,
                          !.emb_failed = f[t].emb_failed,
                          !.again = f[t].again,
                          !.outcome = o, !.exc = e, !.reply = r]]

Finish(t, o, e, r) == FinishFrom(frame, t, o, e, r)

\* An exception leaves the call: nothing on the way catches it.
RaiseFrom(f, t, e) == FinishFrom(f, t, "raised", e, <<>>)

Raise(t, e) == RaiseFrom(frame, t, e)

\* remember returns to its caller.
ReturnFromRemember(t) ==
    IF frame[t].ret = "idle"
    THEN Finish(t, "returned", "none", <<>>)
    ELSE [frame EXCEPT ![t].pc = frame[t].ret, ![t].lst = NoList,
                       ![t].sl = <<>>]

\* ------------------------------------------------------------ the store

\* A store operation as the trace records it.
NoTurn == Turn("user", <<>>)
StoreOp(k, u, e) == [kind |-> k, psid |-> u, turn |-> e]

\* A caller enters remember(psid, role, text).
CallRemember(t, u, r, x, limit) ==
    /\ frame[t].pc = "idle"
    /\ calls < limit
    /\ calls' = calls + 1
    /\ frame' = [frame EXCEPT ![t] =
                    [IdleFrame EXCEPT !.pc = "rm_setdefault", !.op = "remember",
                                      !.psid = u, !.role = r, !.text = x,
                                      !.ret = "idle"]]
    /\ trace' = Append(trace, StoreOp("remember", u, Turn(r, x)))
    /\ UNCHANGED <<convo, heap, open_conns, log, base, boot>>

\* convo.setdefault(psid, [])
RememberSetdefault(t) ==
    /\ frame[t].pc = "rm_setdefault"
    /\ LET u == frame[t].psid
           id == IF convo[u] = NoList THEN FreshList(convo, frame) ELSE convo[u]
           c2 == [convo EXCEPT ![u] = id]
           h2 == IF convo[u] = NoList THEN [heap EXCEPT ![id] = <<>>] ELSE heap
           f2 == [frame EXCEPT ![t].pc = "rm_append", ![t].lst = id]
       IN /\ convo' = c2
          /\ frame' = f2
          /\ heap' = Sweep(h2, c2, f2)
    /\ UNCHANGED <<open_conns, log, base, trace, calls, boot>>

\* .append({"role": role, "text": text}) on the list setdefault returned
RememberAppend(t) ==
    /\ frame[t].pc = "rm_append"
    /\ LET u == frame[t].psid
           e == Turn(frame[t].role, frame[t].text)
           h2 == [heap EXCEPT ![frame[t].lst] = Append(@, e)]
           f2 == [frame EXCEPT ![t].pc = "rm_len", ![t].lst = NoList]
       IN /\ frame' = f2
          /\ heap' = Sweep(h2, convo, f2)
          /\ log' = [log EXCEPT ![u] = Append(@, e)]
    /\ UNCHANGED <<convo, open_conns, base, trace, calls, boot>>

\* if len(convo[psid]) > MAX_TURNS * 2:
RememberLen(t) ==
    /\ frame[t].pc = "rm_len"
    /\ LET u == frame[t].psid
       IN frame' = IF convo[u] = NoList THEN Raise(t, "KeyError")
                   ELSE IF Len(heap[convo[u]]) > MAX_TURNS * 2
                        THEN [frame EXCEPT ![t].pc = "rm_slice"]
                        ELSE ReturnFromRemember(t)
    /\ UNCHANGED <<convo, heap, open_conns, log, base, trace, calls, boot>>

\* convo[psid][-MAX_TURNS * 2:], the right-hand side of the assignment
RememberSlice(t) ==
    /\ frame[t].pc = "rm_slice"
    /\ LET u == frame[t].psid
       IN frame' = IF convo[u] = NoList THEN Raise(t, "KeyError")
                   ELSE [frame EXCEPT ![t].pc = "rm_store",
                                      ![t].sl = LastN(heap[convo[u]], MAX_TURNS * 2)]
    /\ UNCHANGED <<convo, heap, open_conns, log, base, trace, calls, boot>>

\* convo[psid] = <the slice>
RememberStore(t) ==
    /\ frame[t].pc = "rm_store"
    /\ LET u == frame[t].psid
           id == FreshList(convo, frame)
           c2 == [convo EXCEPT ![u] = id]
           h2 == [heap EXCEPT ![id] = frame[t].sl]
           f2 == ReturnFromRemember(t)
       IN /\ convo' = c2
          /\ frame' = f2
          /\ heap' = Sweep(h2, c2, f2)
    /\ UNCHANGED <<open_conns, log, base, trace, calls, boot>>

\* The reset written as convo.clear(): every user's history is dropped.
ResetMemory_ClearAll(t, u, limit) ==
    /\ boot.phase = "serving"
    /\ frame[t].pc = "idle"
    /\ calls < limit
    /\ calls' = calls + 1
    /\ LET c2 == [v \in Psids |-> NoList]
           f2 == [frame EXCEPT ![t] =
                    [IdleFrame EXCEPT !.op = "reset_memory", !.psid = u,
                                      !.outcome = "returned"]]
       IN /\ convo' = c2
          /\ frame' = f2
          /\ heap' = Sweep(heap, c2, f2)
    /\ log' = [log EXCEPT ![u] = <<>>]
    /\ trace' = Append(trace, StoreOp("reset_memory", u, NoTurn))
    /\ UNCHANGED <<open_conns, base, boot>>

\* The reset written as del convo[psid]: a KeyError when the key is absent.
ResetMemory_Del(t, u, limit) ==
    /\ boot.phase = "serving"
    /\ frame[t].pc = "idle"
    /\ calls < limit
    /\ calls' = calls + 1
    /\ LET c2 == [convo EXCEPT ![u] = NoList]
           f2 == [frame EXCEPT ![t] =
                    [IdleFrame EXCEPT !.op = "reset_memory", !.psid = u,
                                      !.outcome = IF convo[u] = NoList
                                                  THEN "raised" ELSE "returned",
                                      !.exc = IF convo[u] = NoList
                                              THEN "KeyError" ELSE "none"]]
       IN /\ convo' = c2
          /\ frame' = f2
          /\ heap' = Sweep(heap, c2, f2)
    /\ log' = [log EXCEPT ![u] = <<>>]
    /\ trace' = Append(trace, StoreOp("reset_memory", u, NoTurn))
    /\ UNCHANGED <<open_conns, base, boot>>

\* reset_memory(psid): convo.pop(psid, None), one dictionary operation
ResetMemory(t, u, limit) ==
    /\ boot.phase = "serving"
    /\ frame[t].pc = "idle"
    /\ calls < limit
    /\ calls' = calls + 1
    /\ LET c2 == [convo EXCEPT ![u] = NoList]
           f2 == [frame EXCEPT ![t] =
                    [IdleFrame EXCEPT !.op = "reset_memory", !.psid = u,
                                      !.outcome = "returned"]]
       IN /\ convo' = c2
          /\ frame' = f2
          /\ heap' = Sweep(heap, c2, f2)
    /\ log' = [log EXCEPT ![u] = <<>>]
    /\ trace' = Append(trace, StoreOp("reset_memory", u, NoTurn))
    /\ UNCHANGED <<open_conns, base, boot>>

\* ---------------------------------------------------- the Safe SQL helper

\* The normalisation without strip().
sql_clean_NoStrip(sql) == Lower(sql)

\* sql_clean = sql.strip().lower()
sql_clean(sql) == Lower(Strip(sql))

\* sql_clean.startswith("select")
IsSelect(sql) == StartsWith(sql_clean(sql), <<"s", "e", "l", "e", "c", "t">>)

\* An exception of execute_sql or of args["sql"] reaches the except clause
\* of generate_reply; the locals of execute_sql, conn among them, are left
\* as they are.
Caught(t, e) ==
    [frame EXCEPT ![t].pc = "gr_except", ![t].exc = e, ![t].caught = e]

\* The check that opens execute_sql.
ExecValidate(t) ==
    /\ frame[t].pc = "ex_validate"
    /\ frame' = IF IsSelect(frame[t].sql)
                THEN [frame EXCEPT ![t].pc = "ex_connect"]
                ELSE Caught(t, "ValueError")
    /\ UNCHANGED <<convo, heap, open_conns, log, base, trace, calls, boot>>

\* conn = get_db_conn()
ExecConnect(t) ==
    /\ frame[t].pc = "ex_connect"
    /\ \E ok \in BOOLEAN :
          IF ok
          THEN /\ frame' = [frame EXCEPT ![t].pc = "ex_execute", ![t].conn = "open"]
               /\ open_conns' = open_conns + 1
          ELSE /\ frame' = Caught(t, "OperationalError")
               /\ UNCHANGED <<open_conns, boot>>
    /\ UNCHANGED <<convo, heap, log, base, trace, calls, boot>>

\* cur = conn.cursor(); cur.execute(sql)
ExecExecute(t) ==
    /\ frame[t].pc = "ex_execute"
    /\ \E ok \in BOOLEAN :
          LET ran == [frame EXCEPT ![t].executed = Append(@, frame[t].sql)]
          IN frame' = IF ok
                      THEN [ran EXCEPT ![t].pc = "ex_fetch"]
                      ELSE [ran EXCEPT ![t].pc = "gr_except",
                                       ![t].exc = "ProgrammingError",
                                       ![t].caught = "ProgrammingError"]
    /\ UNCHANGED <<convo, heap, open_conns, log, base, trace, calls, boot>>

\* cols = [c[0] for c in cur.description]; rows = cur.fetchall()
\* cur.description is None when the statement produced no result set.
ExecFetch(t) ==
    /\ frame[t].pc = "ex_fetch"
    /\ \/ \E e \in {"TypeError", "Error"} : frame' = Caught(t, e)
       \/ \E rows \in ResultSets :
             frame' = [frame EXCEPT ![t].pc = "ex_close", ![t].result = rows]
    /\ UNCHANGED <<convo, heap, open_conns, log, base, trace, calls, boot>>

\* cur.close(); conn.close(); return the rows
ExecClose(t) ==
    /\ frame[t].pc = "ex_close"
    /\ frame' = [frame EXCEPT ![t].pc = "gr_followup", ![t].conn = "closed"]
    /\ open_conns' = open_conns - 1
    /\ UNCHANGED <<convo, heap, log, base, trace, calls, boot>>

\* ------------------------------------------------------- generate_reply

\* A request message.
Message(r, c, n, fc) == [role |-> r, content |-> c, name |-> n, function_call |-> fc]

\* A request that declares the Gateway function whatever it is given.
Request_AlwaysDeclares(ms, fs) == [messages |-> ms, functions |-> {"execute_sql"}]

\* A model request: the messages sent and the names of the functions
\* declared with them.
Request(ms, fs) == [messages |-> ms, functions |-> fs]

\* intent(msg) alone: the call returns the category of the message.
IntentCall(t) ==
    /\ frame[t].pc = "in_call"
    /\ frame' = [frame EXCEPT ![t].pc = "idle", ![t].outcome = "returned",
                              ![t].category = intent(frame[t].user_msg)]
    /\ UNCHANGED <<convo, heap, open_conns, log, base, trace, calls, boot>>

\* generate_reply calls remember(psid, role, text) and goes on at pc ret.
EnterRemember(f, t, r, x, ret) ==
    [f EXCEPT ![t].pc = "rm_setdefault", ![t].role = r, ![t].text = x,
              ![t].ret = ret]

\* generate_reply(psid, user_msg) is entered: remember(psid, "user", user_msg)
CallGenerateReply(t, u, m) ==
    /\ boot.phase = "serving"
    /\ frame[t].pc = "idle"
    /\ calls < MaxReplies
    /\ calls' = calls + 1
    /\ frame' = EnterRemember(
                   [frame EXCEPT ![t] =
                       [IdleFrame EXCEPT !.op = "generate_reply", !.psid = u,
                                         !.user_msg = m, !.prior = Stored(u)]],
                   t, "user", m, "gr_intent")
    /\ UNCHANGED <<convo, heap, open_conns, log, base, trace, boot>>

\* Only the cutoff category is answered at once; billing and outage
\* messages go on to retrieval and the model.
GenIntent_OnlyCutoff(t) ==
    /\ frame[t].pc = "gr_intent"
    /\ LET c == intent(frame[t].user_msg)
       IN frame' = IF c # "cutoff"
                   THEN [frame EXCEPT ![t].pc = "tc_embed", ![t].k = 3]
                   ELSE FinishFrom([frame EXCEPT ![t].path = "canned"], t,
                                   "returned", "none", CannedReply(c))
    /\ UNCHANGED <<convo, heap, open_conns, log, base, trace, calls, boot>>

\* The canned responses: a category other than general returns at once.
GenIntent(t) ==
    /\ frame[t].pc = "gr_intent"
    /\ LET c == intent(frame[t].user_msg)
       IN frame' = IF c = "general"
                   THEN [frame EXCEPT ![t].pc = "tc_embed", ![t].k = 3]
                   ELSE FinishFrom([frame EXCEPT ![t].path = "canned"], t,
                                   "returned", "none", CannedReply(c))
    /\ UNCHANGED <<convo, heap, open_conns, log, base, trace, calls, boot>>

\* top_chunks(query, k): the embedding call for the query raises, which
\* nothing in top_chunks or generate_reply catches, or gives qvec
TopEmbed(t) ==
    /\ frame[t].pc = "tc_embed"
    /\ LET f2 == [frame EXCEPT ![t].nemb = @ + 1]
       IN \/ frame' = RaiseFrom([f2 EXCEPT ![t].emb_failed = TRUE], t, "APIError")
          \/ \E q \in QVecs :
                frame' = [f2 EXCEPT ![t].pc = "tc_search", ![t].qvec = q]
    /\ UNCHANGED <<convo, heap, open_conns, log, base, trace, calls, boot>>

\* D, I = faiss_idx.search(qvec.reshape(1, -1), k)
TopSearch(t) ==
    /\ frame[t].pc = "tc_search"
    /\ \E I \in SearchResults(frame[t].qvec, frame[t].k) :
          frame' = [frame EXCEPT ![t].pc = "tc_filter", ![t].hits = I,
                                 ![t].nsearch = @ + 1]
    /\ UNCHANGED <<convo, heap, open_conns, log, base, trace, calls, boot>>

\* The loop that takes the first chunk out of the corpus and the index.
TopFilter_Consumes(t) ==
    /\ frame[t].pc = "tc_filter"
    /\ LET out == FilterHits(frame[t].hits, frame[t].qvec)
       IN frame' =
            IF frame[t].op = "top_chunks"
            THEN [frame EXCEPT ![t].pc = "idle", ![t].outcome = "returned",
                               ![t].chunks = out, ![t].hits = <<>>]
            ELSE [frame EXCEPT ![t].pc = "gr_compose", ![t].chunks = out,
                               ![t].k = 0, ![t].qvec = <<0, 0>>,
                               ![t].hits = <<>>]
    /\ boot' = [boot EXCEPT !.chunks = Tail(@), !.vecs = Tail(@),
                            !.ntotal = @ - 1]
    /\ UNCHANGED <<convo, heap, open_conns, log, base, trace, calls>>

\* The loop over the hits and return out.  In generate_reply the result is
\* chunks and the locals of top_chunks are gone; of a call of top_chunks
\* alone the arguments and the result are kept.
TopFilter(t) ==
    /\ frame[t].pc = "tc_filter"
    /\ LET out == FilterHits(frame[t].hits, frame[t].qvec)
       IN frame' =
            IF frame[t].op = "top_chunks"
            THEN [frame EXCEPT ![t].pc = "idle", ![t].outcome = "returned",
                               ![t].chunks = out, ![t].hits = <<>>]
            ELSE [frame EXCEPT ![t].pc = "gr_compose", ![t].chunks = out,
                               ![t].k = 0, ![t].qvec = <<0, 0>>,
                               ![t].hits = <<>>]
    /\ UNCHANGED <<convo, heap, open_conns, log, base, trace, calls, boot>>

\* messages = [system]; the for loop takes convo.get(psid, [])
GenCompose(t) ==
    /\ frame[t].pc = "gr_compose"
    /\ LET system == SystemHead \o Join(<<"\n">>, frame[t].chunks)
           f2 == [frame EXCEPT ![t].pc = "gr_read",
                     ![t].messages = <<Message("system", system, "", NoCall)>>,
                     ![t].iter = convo[frame[t].psid], ![t].idx = 0]
       IN /\ frame' = f2
          /\ heap' = Sweep(heap, convo, f2)
    /\ UNCHANGED <<convo, open_conns, log, base, trace, calls, boot>>

\* One round of the for loop over the history; after the last round
\* messages.append({"role": "user", "content": user_msg})
GenRead(t) ==
    /\ frame[t].pc = "gr_read"
    /\ LET it == frame[t].iter
           more == it # NoList /\ frame[t].idx < Len(heap[it])
           turn == heap[it][frame[t].idx + 1]
           f2 == IF more
                 THEN [frame EXCEPT ![t].idx = @ + 1,
                          ![t].messages =
                              Append(@, Message(turn.role, turn.text, "", NoCall))]
                 ELSE [frame EXCEPT ![t].pc = "gr_request", ![t].iter = NoList,
                          ![t].idx = 0,
                          ![t].messages =
                              Append(@, Message("user", frame[t].user_msg, "", NoCall))]
       IN /\ frame' = f2
          /\ heap' = Sweep(heap, convo, f2)
    /\ UNCHANGED <<convo, open_conns, log, base, trace, calls, boot>>

\* The first model request, with functions=[sql_function]
GenRequest(t) ==
    /\ frame[t].pc = "gr_request"
    /\ LET f2 == [frame EXCEPT ![t].nreq = @ + 1,
                     ![t].sent = Append(@, Request(frame[t].messages,
                                                   {"execute_sql"}))]
       IN \/ frame' = RaiseFrom(f2, t, "APIError")
          \/ \E m \in ModelMessages :
                frame' = [f2 EXCEPT ![t].pc = "gr_branch", ![t].msg = m]
    /\ UNCHANGED <<convo, heap, open_conns, log, base, trace, calls, boot>>

\* if msg.function_call is not None: args = json.loads(...)
\* else: answer = msg.content.strip()
GenBranch(t) ==
    /\ frame[t].pc = "gr_branch"
    /\ LET fc == frame[t].msg.function_call
       IN frame' =
            IF ~fc.present
            THEN LET a == Strip(frame[t].msg.content)
                 IN EnterRemember([frame EXCEPT ![t].answer = a,
                                                ![t].path = "direct"],
                                  t, "assistant", a, "gr_return")
            ELSE IF fc.json = "malformed" THEN Raise(t, "JSONDecodeError")
            ELSE [frame EXCEPT ![t].pc = "gr_exec", ![t].args = fc]
    /\ UNCHANGED <<convo, heap, open_conns, log, base, trace, calls, boot>>

\* try: result = execute_sql(args["sql"])
GenExec(t) ==
    /\ frame[t].pc = "gr_exec"
    /\ frame' = IF frame[t].args.json = "sql"
                THEN [frame EXCEPT ![t].pc = "ex_validate",
                                   ![t].sql = frame[t].args.sql,
                                   ![t].ngw = @ + 1]
                ELSE Caught(t, "KeyError")
    /\ UNCHANGED <<convo, heap, open_conns, log, base, trace, calls, boot>>

\* The except clause that returns the warning without remembering it.
GenExcept_NotRemembered(t) ==
    /\ frame[t].pc = "gr_except"
    /\ frame' = [frame EXCEPT ![t].pc = "gr_return",
                              ![t].answer = Warning(frame[t].exc),
                              ![t].path = "tool_failed"]
    /\ UNCHANGED <<convo, heap, open_conns, log, base, trace, calls, boot>>

\* except Exception as e: answer = the warning
GenExcept(t) ==
    /\ frame[t].pc = "gr_except"
    /\ LET a == Warning(frame[t].exc)
       IN frame' = EnterRemember([frame EXCEPT ![t].answer = a,
                                               ![t].path = "tool_failed"],
                                 t, "assistant", a, "gr_return")
    /\ UNCHANGED <<convo, heap, open_conns, log, base, trace, calls, boot>>

\* The second request without the assistant's invocation message.
GenFollowup_NoInvocation(t) ==
    /\ frame[t].pc = "gr_followup"
    /\ LET sent == frame[t].messages
                   \o <<Message("function", JsonDumps(frame[t].result),
                                "execute_sql", NoCall)>>
           f2 == [frame EXCEPT ![t].messages = sent, ![t].nreq = @ + 1,
                               ![t].sent = Append(@, Request(sent, {})),
                               ![t].path = "tool_ok"]
       IN \/ frame' = RaiseFrom(f2, t, "APIError")
          \/ \E m \in ModelMessages :
                LET f3 == [f2 EXCEPT ![t].again = m.function_call.present]
                IN frame' =
                     IF m.content = NoneText
                     THEN RaiseFrom(f3, t, "AttributeError")
                     ELSE LET a == Strip(m.content)
                          IN EnterRemember([f3 EXCEPT ![t].answer = a],
                                           t, "assistant", a, "gr_return")
    /\ UNCHANGED <<convo, heap, open_conns, log, base, trace, calls, boot>>

\* else: the invocation and its result are appended, and the second model
\* request is made; answer = followup.choices[0].message.content.strip()
GenFollowup(t) ==
    /\ frame[t].pc = "gr_followup"
    /\ LET sent == frame[t].messages
                   \o <<Message("assistant", NoneText, "", frame[t].msg.function_call),
                        Message("function", JsonDumps(frame[t].result),
                                "execute_sql", NoCall)>>
           f2 == [frame EXCEPT ![t].messages = sent, ![t].nreq = @ + 1,
                               ![t].sent = Append(@, Request(sent, {})),
                               ![t].path = "tool_ok"]
       IN \/ frame' = RaiseFrom(f2, t, "APIError")
          \/ \E m \in ModelMessages :
                LET f3 == [f2 EXCEPT ![t].again = m.function_call.present]
                IN frame' =
                     IF m.content = NoneText
                     THEN RaiseFrom(f3, t, "AttributeError")
                     ELSE LET a == Strip(m.content)
                          IN EnterRemember([f3 EXCEPT ![t].answer = a],
                                           t, "assistant", a, "gr_return")
    /\ UNCHANGED <<convo, heap, open_conns, log, base, trace, calls, boot>>

\* return answer
GenReturn(t) ==
    /\ frame[t].pc = "gr_return"
    /\ frame' = Finish(t, "returned", "none", frame[t].answer)
    /\ UNCHANGED <<convo, heap, open_conns, log, base, trace, calls, boot>>

\* ------------------------------------------------------------ the webhook

\* The texts of the message events the webhook receives.
EventTexts == {<<" ", "R", "e", "s", "e", "t", " ">>,
               <<"R", "E", "S", "T", "A", "R", "T">>,
               <<"r", "e", "s", "e", "t">>,
               <<"r", "e", "s", "e", "t", " ", "m", "y", " ", "B", "i", "l", "l">>,
               <<" ", "l", "o", "s", "s", "?", " ">>}

\* The texts that clear the sender's history.
ResetCommands == {<<"r", "e", "s", "e", "t">>, <<"r", "e", "s", "t", "a", "r", "t">>}

\* The dispatch on the text as it came, without strip().
fb_webhook_NoStrip(t, u, raw) ==
    /\ frame[t].pc = "idle"
    /\ IF Lower(raw) \in ResetCommands
       THEN ResetMemory(t, u, MaxReplies)
       ELSE CallGenerateReply(t, u, raw)

\* fb_webhook for one text event of sender u: txt = text.strip(); a reset
\* command calls reset_memory(psid), any other text generate_reply(psid, txt)
fb_webhook(t, u, raw) ==
    /\ frame[t].pc = "idle"
    /\ LET txt == Strip(raw)
       IN IF Lower(txt) \in ResetCommands
          THEN ResetMemory(t, u, MaxReplies)
          ELSE CallGenerateReply(t, u, txt)

\* -------------------------------------------------------- specifications

Init ==
    /\ \E n \in InitLens :
          /\ convo = [u \in Psids |-> IF u = "u1" /\ n > 0 THEN 1 ELSE NoList]
          /\ heap = [i \in ListIds |-> IF i = 1 /\ n > 0 THEN History(n) ELSE <<>>]
          /\ log = [u \in Psids |-> IF u = "u1" THEN History(n) ELSE <<>>]
          /\ base = [u \in Psids |-> IF u = "u1" THEN History(n) ELSE <<>>]
    /\ trace = <<>>
    /\ frame = [t \in Threads |-> IdleFrame]
    /\ open_conns = 0
    /\ calls = 0
    /\ boot = Serving

\* The steps of remember.
RememberStep(t) ==
    \/ RememberSetdefault(t)
    \/ RememberAppend(t)
    \/ RememberLen(t)
    \/ RememberSlice(t)
    \/ RememberStore(t)

\* The steps of execute_sql.
ExecStep(t) ==
    \/ ExecValidate(t)
    \/ ExecConnect(t)
    \/ ExecExecute(t)
    \/ ExecFetch(t)
    \/ ExecClose(t)

\* The steps of generate_reply.
GenStep(t) ==
    \/ GenIntent(t)
    \/ TopEmbed(t)
    \/ TopSearch(t)
    \/ TopFilter(t)
    \/ GenCompose(t)
    \/ GenRead(t)
    \/ GenRequest(t)
    \/ GenBranch(t)
    \/ GenExec(t)
    \/ GenExcept(t)
    \/ GenFollowup(t)
    \/ GenReturn(t)

\* The program handles one message at a time: generate_reply or a reset.
Next ==
    \/ \E u \in Psids, m \in UserMsgs : CallGenerateReply(1, u, m)
    \/ \E u \in Psids : ResetMemory(1, u, MaxReplies)
    \/ RememberStep(1)
    \/ GenStep(1)
    \/ ExecStep(1)

Spec == Init /\ [][Next]_vars

\* The webhook handles one text event at a time.
WebhookNext ==
    \/ \E u \in Psids, raw \in EventTexts : fb_webhook(1, u, raw)
    \/ RememberStep(1)
    \/ GenStep(1)
    \/ ExecStep(1)

WebhookSpec == Init /\ [][WebhookNext]_vars

\* The store alone: remember and reset_memory called one at a time.
StoreNext ==
    \/ \E u \in Psids, r \in Roles :
          CallRemember(1, u, r, Tag("m", calls + 1), MaxCalls)
    \/ \E u \in Psids : ResetMemory(1, u, MaxCalls)
    \/ RememberStep(1)

StoreSpec == Init /\ [][StoreNext]_vars

\* The history read of generate_reply (the for loop over convo.get(psid,
\* [])) run on its own.
CallRead(t, u) ==
    /\ frame[t].pc = "idle"
    /\ calls < MaxConcCalls
    /\ calls' = calls + 1
    /\ frame' = [frame EXCEPT ![t] =
                    [IdleFrame EXCEPT !.pc = "gr_compose", !.op = "read",
                                      !.psid = u]]
    /\ trace' = Append(trace, StoreOp("read", u, NoTurn))
    /\ UNCHANGED <<convo, heap, open_conns, log, base, boot>>

\* The read on its own ends where generate_reply goes on to the request.
ReadDone(t) ==
    /\ frame[t].pc = "gr_request"
    /\ frame[t].op = "read"
    /\ frame' = Finish(t, "returned", "none", <<>>)
    /\ UNCHANGED <<convo, heap, open_conns, log, base, trace, calls, boot>>

\* The hosting server runs handlers on several threads: store operations
\* of different threads interleave step by step.
ConcNext ==
    \/ \E t \in Threads, u \in Psids, r \in Roles :
          CallRemember(t, u, r, Tag("m", calls + 1), MaxConcCalls)
    \/ \E t \in Threads, u \in Psids : ResetMemory(t, u, MaxConcCalls)
    \/ \E t \in Threads, u \in Psids : CallRead(t, u)
    \/ \E t \in Threads : RememberStep(t)
    \/ \E t \in Threads : GenCompose(t)
    \/ \E t \in Threads : GenRead(t)
    \/ \E t \in Threads : ReadDone(t)

ConcSpec == Init /\ [][ConcNext]_vars

\* The process from its start: the environment is any subset of the
\* variables, the module-level code runs, and once app.run serves, the
\* request handler enters generate_reply or reset_memory.
StartupInit ==
    /\ convo = [u \in Psids |-> NoList]
    /\ heap = [i \in ListIds |-> <<>>]
    /\ log = [u \in Psids |-> <<>>]
    /\ base = [u \in Psids |-> <<>>]
    /\ trace = <<>>
    /\ frame = [t \in Threads |-> IdleFrame]
    /\ open_conns = 0
    /\ calls = 0
    /\ \E e \in SUBSET EnvVars :
          boot = [phase |-> "check_ngrok", env |-> e,
                  chunks |-> knowledge_chunks, vecs |-> <<>>,
                  nvec |-> 0, ntotal |-> 0]

StartupNext ==
    \/ CheckNgrok
    \/ CheckEnv
    \/ EmbedCorpus
    \/ BuildIndex
    \/ \E u \in Psids, m \in UserMsgs : CallGenerateReply(1, u, m)
    \/ \E u \in Psids : ResetMemory(1, u, MaxReplies)

StartupSpec == StartupInit /\ [][StartupNext]_vars

\* top_chunks alone: a call with some k has been entered, and its steps run.
RetrievalInit ==
    /\ convo = [u \in Psids |-> NoList]
    /\ heap = [i \in ListIds |-> <<>>]
    /\ log = [u \in Psids |-> <<>>]
    /\ base = [u \in Psids |-> <<>>]
    /\ trace = <<>>
    /\ open_conns = 0
    /\ calls = 0
    /\ boot = Serving
    /\ \E k \in 1..MaxK :
          frame = [t \in Threads |->
                      IF t = 1
                      THEN [IdleFrame EXCEPT !.pc = "tc_embed",
                                             !.op = "top_chunks", !.k = k]
                      ELSE IdleFrame]

RetrievalNext ==
    \/ TopEmbed(1)
    \/ TopSearch(1)
    \/ TopFilter(1)

RetrievalSpec == RetrievalInit /\ [][RetrievalNext]_vars

\* intent alone: a call with some message has been entered.
IntentInit ==
    /\ convo = [u \in Psids |-> NoList]
    /\ heap = [i \in ListIds |-> <<>>]
    /\ log = [u \in Psids |-> <<>>]
    /\ base = [u \in Psids |-> <<>>]
    /\ trace = <<>>
    /\ open_conns = 0
    /\ calls = 0
    /\ boot = Serving
    /\ \E m \in IntentMsgs :
          frame = [t \in Threads |->
                      IF t = 1
                      THEN [IdleFrame EXCEPT !.pc = "in_call", !.op = "intent",
                                             !.user_msg = m]
                      ELSE IdleFrame]

IntentNext == IntentCall(1)

IntentSpec == IntentInit /\ [][IntentNext]_vars

\* ------------------------------------------------------------- properties

AllIdle == \A t \in Threads : frame[t].pc = "idle"

\* The last two stored turns of user u are a and then b.
EndsWith(u, a, b) ==
    LET s == Stored(u)
    IN Len(s) >= 2 /\ s[Len(s) - 1] = a /\ s[Len(s)] = b

\* C1: between calls of remember and reset_memory made one at a time, no
\* user's stored sequence holds more than 2 * MAX_TURNS entries.
C1_StoreBounded ==
    AllIdle => \A u \in Psids : Len(Stored(u)) <= 2 * MAX_TURNS

\* C1 witness: a full window from which turns have been evicted.
C1_Witness ==
    /\ AllIdle
    /\ Len(Stored("u1")) = 2 * MAX_TURNS
    /\ Len(log["u1"]) > 2 * MAX_TURNS

\* C2: after n remember calls for a user since the last reset, the stored
\* sequence is the last min(n, 2 * MAX_TURNS) appended turns in the order
\* they were appended.
C2_SlidingFifo ==
    AllIdle =>
        \A u \in Psids :
            LET s == Stored(u)
                n == Len(log[u])
            IN /\ Len(s) = IF n < 2 * MAX_TURNS THEN n ELSE 2 * MAX_TURNS
               /\ \A i \in 1..Len(s) : s[i] = log[u][n - Len(s) + i]

\* C2 witness: two turns have been evicted, one per append, and the newest
\* turn is the last one stored.
C2_Witness ==
    /\ AllIdle
    /\ Len(log["u1"]) = 2 * MAX_TURNS + 2
    /\ Len(Stored("u1")) = 2 * MAX_TURNS
    /\ Stored("u1")[2 * MAX_TURNS] = log["u1"][2 * MAX_TURNS + 2]

\* C3: when generate_reply has returned an answer on the general path
\* (direct answer, answer after the Gateway, or Gateway failure), the user's
\* stored sequence ends with the user message and then the returned answer.
C3_GeneralTurnStored ==
    \A t \in Threads :
        (/\ frame[t].pc = "idle"
         /\ frame[t].op = "generate_reply"
         /\ frame[t].outcome = "returned"
         /\ frame[t].path \in {"direct", "tool_ok", "tool_failed"})
        => EndsWith(frame[t].psid, Turn("user", frame[t].user_msg),
                    Turn("assistant", frame[t].reply))

\* C3 witness: an answer after a Gateway round-trip, stored in a full window.
C3_Witness ==
    /\ frame[1].pc = "idle"
    /\ frame[1].outcome = "returned"
    /\ frame[1].path = "tool_ok"
    /\ frame[1].psid = "u1"
    /\ Len(Stored("u1")) = 2 * MAX_TURNS
    /\ Len(log["u1"]) > 2 * MAX_TURNS

\* C4: when generate_reply has returned a canned reply, the user's stored
\* sequence ends with the user message and then the canned reply.
C4_CannedTurnStored ==
    \A t \in Threads :
        (/\ frame[t].pc = "idle"
         /\ frame[t].op = "generate_reply"
         /\ frame[t].outcome = "returned"
         /\ frame[t].path = "canned")
        => EndsWith(frame[t].psid, Turn("user", frame[t].user_msg),
                    Turn("assistant", frame[t].reply))

\* C5: no error leaves generate_reply: a turn never ends by raising.
C5_NoErrorEscapes ==
    \A t \in Threads :
        frame[t].op = "generate_reply" => frame[t].outcome # "raised"

\* The sequential store: what a remember or a reset_memory does to a
\* mapping of users to sequences when nothing interleaves.
SeqRemember(s, e) ==
    LET a == Append(s, e)
    IN IF Len(a) > 2 * MAX_TURNS
       THEN SubSeq(a, Len(a) - 2 * MAX_TURNS + 1, Len(a))
       ELSE a

SeqApplyOp(st, o) ==
    CASE o.kind = "remember" -> [st EXCEPT ![o.psid] = SeqRemember(@, o.turn)]
      [] o.kind = "reset_memory" -> [st EXCEPT ![o.psid] = <<>>]
      [] OTHER -> st

RECURSIVE SeqApply(_, _)
SeqApply(st, ops) ==
    IF Len(ops) = 0 THEN st ELSE SeqApply(SeqApplyOp(st, Head(ops)), Tail(ops))

Perms(n) ==
    {p \in [1..n -> 1..n] : \A i, j \in 1..n : i # j => p[i] # p[j]}

\* The store is what some sequential ordering of the operations called so
\* far produces from the initial store.
Linearizable ==
    \E p \in Perms(Len(trace)) :
        SeqApply(base, [i \in 1..Len(trace) |-> trace[p[i]]])
            = [u \in Psids |-> Stored(u)]

\* C6: when concurrent remember calls have all returned, the store is the
\* last-2*MAX_TURNS suffix of some sequential ordering of the appends: no
\* appended turn is lost other than by eviction of the oldest.
C6_NoLostAppend ==
    (/\ AllIdle
     /\ \A i \in 1..Len(trace) : trace[i].kind = "remember")
    => Linearizable

\* C7: with reset_memory running concurrently with remember or with the
\* history read, no operation raises, and once all have ended the store is
\* what some sequential ordering of them produces.
C7_ClearSafe ==
    /\ \A t \in Threads : frame[t].outcome # "raised"
    /\ (/\ AllIdle
        /\ \E i \in 1..Len(trace) : trace[i].kind = "reset_memory")
       => Linearizable

\* The positions inside execute_sql.
ExecPcs == {"ex_validate", "ex_connect", "ex_execute", "ex_fetch", "ex_close"}

\* C8: every connection execute_sql opened is closed by the time it returns
\* or raises: outside execute_sql no connection is open.
C8_ConnectionReleased ==
    (\A t \in Threads : frame[t].pc \notin ExecPcs) => open_conns = 0

\* The input begins, after leading whitespace, with the letters of "select"
\* in either case.
SelectPrefix(s) ==
    LET lo == <<"s", "e", "l", "e", "c", "t">>
        up == <<"S", "E", "L", "E", "C", "T">>
    IN \E k \in 0..Len(s) :
          /\ \A i \in 1..k : s[i] \in Whitespace
          /\ Len(s) >= k + 6
          /\ \A j \in 1..6 : s[k + j] \in {lo[j], up[j]}

\* C9: the check of execute_sql fails with the validation error, no
\* connection opened and no statement executed, exactly when the trimmed,
\* lower-cased input does not begin with "select"; otherwise the call goes on
\* to open a connection.
C9_ValidationIff ==
    [][\A t \in Threads :
          frame[t].pc = "ex_validate" =>
              IF SelectPrefix(frame[t].sql)
              THEN frame'[t].pc = "ex_connect"
              ELSE /\ frame'[t].pc = "gr_except"
                   /\ frame'[t].exc = "ValueError"
                   /\ frame'[t].conn = "none"
                   /\ frame'[t].executed = <<>>
                   /\ open_conns' = open_conns]_vars

\* C9 witness: an input that holds "select", but not at its start, has been
\* rejected.
C9_Witness ==
    /\ frame[1].pc = "gr_except"
    /\ frame[1].exc = "ValueError"
    /\ Contains(Lower(frame[1].sql), <<"s", "e", "l", "e", "c", "t">>)
    /\ open_conns = 0

\* A statement that changes or destroys data somewhere in the string.
MutatingWords == {<<"d", "r", "o", "p">>, <<"i", "n", "s", "e", "r", "t">>,
                  <<"i", "n", "t", "o">>, <<"d", "e", "l", "e", "t", "e">>,
                  <<"u", "p", "d", "a", "t", "e">>}
Mutating(q) == \E w \in MutatingWords : Contains(Lower(q), w)

\* C10: no query string handed to the database engine contains a mutating
\* or destructive statement.
C10_OnlyReadOnlyExecuted ==
    \A t \in Threads :
        \A i \in 1..Len(frame[t].executed) : ~Mutating(frame[t].executed[i])

\* C11: when the Gateway call fails (execute_sql or args["sql"] raises and
\* the except clause catches it), the turn makes no second model request,
\* returns the fixed warning followed by the description of the failure,
\* and that warning is stored as the assistant turn after the user message.
C11_GatewayFailureWarning ==
    \A t \in Threads :
        /\ (frame[t].pc = "idle" /\ frame[t].caught # "none")
              => frame[t].path = "tool_failed"
        /\ frame[t].path = "tool_failed" =>
              /\ frame[t].nreq = 1
              /\ Len(frame[t].sent) = 1
              /\ frame[t].pc = "idle" =>
                    /\ frame[t].outcome = "returned"
                    /\ frame[t].reply =
                          <<"!", " ", "S", "Q", "L", " ", "e", "r", "r", "o", "r", ":", " ">>
                          \o ExcText(frame[t].caught)
                    /\ EndsWith(frame[t].psid, Turn("user", frame[t].user_msg),
                                Turn("assistant", frame[t].reply))

\* C11 witness: the database rejected the query, and the turn has returned
\* the warning with its description after one model request.
C11_Witness ==
    /\ frame[1].pc = "idle"
    /\ frame[1].path = "tool_failed"
    /\ frame[1].caught = "ProgrammingError"
    /\ frame[1].ngw = 1
    /\ frame[1].reply = <<"!", " ", "S", "Q", "L", " ", "e", "r", "r", "o", "r", ":", " ",
                          "s", "y", "n", "t", "a", "x">>

\* C12: a turn makes at most two model requests and at most one Gateway
\* call; the first request declares execute_sql; a second request declares
\* no function and is made only after the first response was an invocation
\* and the Gateway call succeeded.
C12_RequestBudget ==
    \A t \in Threads :
        /\ frame[t].nreq = Len(frame[t].sent)
        /\ Len(frame[t].sent) <= 2
        /\ frame[t].ngw <= 1
        /\ Len(frame[t].sent) >= 1 => frame[t].sent[1].functions = {"execute_sql"}
        /\ Len(frame[t].sent) = 2 =>
              /\ frame[t].sent[2].functions = {}
              /\ frame[t].ngw = 1
              /\ frame[t].caught = "none"
              /\ frame[t].path = "tool_ok"

\* C12 witness: a turn that made both requests and returned.
C12_Witness ==
    /\ frame[1].pc = "idle"
    /\ frame[1].outcome = "returned"
    /\ Len(frame[1].sent) = 2
    /\ frame[1].ngw = 1

\* C13: a message of a canned category (cutoff, billing, outage) gets that
\* category's fixed reply, and the turn makes no embedding call, no index
\* search, no model request and no Gateway call.
C13_CannedNoExternalCall ==
    \A t \in Threads :
        (frame[t].op = "generate_reply" /\ intent(frame[t].user_msg) # "general")
        => /\ frame[t].nemb = 0
           /\ frame[t].nsearch = 0
           /\ frame[t].nreq = 0
           /\ frame[t].sent = <<>>
           /\ frame[t].ngw = 0
           /\ frame[t].pc \notin {"tc_embed", "tc_search", "tc_filter", "gr_compose",
                                  "gr_read", "gr_request", "gr_branch", "gr_exec",
                                  "gr_except", "gr_followup", "gr_return"}
           /\ frame[t].pc = "idle" =>
                 /\ frame[t].outcome = "returned"
                 /\ frame[t].reply = CannedReply(intent(frame[t].user_msg))

\* C13 witness: the billing message has been answered with the billing reply.
C13_Witness ==
    /\ frame[1].pc = "idle"
    /\ frame[1].op = "generate_reply"
    /\ frame[1].user_msg = <<"M", "y", " ", "B", "I", "L", "L">>
    /\ frame[1].reply = <<"T", "o">>
    /\ frame[1].nemb = 0

\* C19: the first model request of a turn is the system message, then the
\* user's history as it was stored before the turn (at most 2 * MAX_TURNS
\* entries, oldest first), then the new user message, which appears once.
C19_FirstRequestShape ==
    \A t \in Threads :
        Len(frame[t].sent) >= 1 =>
            LET ms == frame[t].sent[1].messages
                h == frame[t].prior
            IN /\ Len(h) <= 2 * MAX_TURNS
               /\ Len(ms) = Len(h) + 2
               /\ ms[1].role = "system"
               /\ \A i \in 1..Len(h) :
                     ms[i + 1] = Message(h[i].role, h[i].text, "", NoCall)
               /\ ms[Len(ms)] = Message("user", frame[t].user_msg, "", NoCall)

\* C20: when the Gateway call succeeds, the second request's messages are
\* the first request's messages, then the assistant's invocation, then the
\* function message holding the serialized rows, and nothing else.
C20_SecondRequestShape ==
    [][\A t \in Threads :
          (Len(frame[t].sent) = 1 /\ Len(frame'[t].sent) = 2)
          => frame'[t].sent[2].messages =
                frame[t].sent[1].messages
                \o <<Message("assistant", NoneText, "", frame[t].msg.function_call),
                     Message("function", JsonDumps(frame[t].result),
                             "execute_sql", NoCall)>>]_vars

\* C20 witness: a second request whose last message holds one serialized
\* row, a date as a string and a number as it is.
C20_Witness ==
    /\ Len(frame[1].sent) = 2
    /\ LET ms == frame[1].sent[2].messages
       IN /\ ms[Len(ms)].role = "function"
          /\ ms[Len(ms)].content = <<"[", "{", "\"", "D", "\"", ":", " ", "\"", "1", "/", "2", "\"", ",", " ", "\"", "L", "\"", ":", " ", "3", ".", "5", "}", "]">>
          /\ ms[Len(ms) - 1].function_call.present

\* C16: when the embedding call of retrieval fails in a general-intent
\* turn, the turn does not end with that failure: generate_reply goes on to
\* the model request with an empty knowledge-base context.
C16_RetrievalFailureNoGrounding ==
    \A t \in Threads :
        (frame[t].op = "generate_reply" /\ frame[t].emb_failed)
        => /\ frame[t].outcome # "raised"
           /\ frame[t].pc = "idle" =>
                 /\ frame[t].nreq >= 1
                 /\ frame[t].sent[1].messages[1].content = SystemHead

\* The position of a chunk in the corpus.
IdOf(c) == CHOOSE i \in ChunkIds : knowledge_chunks[i] = c

\* Chunks strictly nearer to q than chunk i / at most as far from q as i.
Nearer(i, q) == {j \in ChunkIds : Dist2(vectors[j], q) < Dist2(vectors[i], q)}
NotFarther(i, q) == {j \in ChunkIds : Dist2(vectors[j], q) <= Dist2(vectors[i], q)}

\* C17: top_chunks(query, k) returns exactly those of the k
\* Euclidean-nearest chunks whose cosine similarity to the query is at
\* least 0.45, nearest first: every returned chunk passes the threshold and
\* has fewer than k chunks strictly nearer, every passing chunk that is
\* among the k nearest however ties are broken is returned, no chunk is
\* returned twice, at most k are returned, and none when all are below the
\* threshold.
C17_TopChunks ==
    \A t \in Threads :
        (/\ frame[t].pc = "idle"
         /\ frame[t].op = "top_chunks"
         /\ frame[t].outcome = "returned")
        => LET q == frame[t].qvec
               k == frame[t].k
               out == frame[t].chunks
               ids == [n \in 1..Len(out) |-> IdOf(out[n])]
           IN /\ \A n \in 1..Len(out) :
                    \E i \in ChunkIds : knowledge_chunks[i] = out[n]
              /\ Len(out) <= k
              /\ \A n, m \in 1..Len(out) : n # m => ids[n] # ids[m]
              /\ \A n \in 1..Len(out) :
                    /\ CosAtLeast(vectors[ids[n]], q)
                    /\ Cardinality(Nearer(ids[n], q)) < k
              /\ \A n, m \in 1..Len(out) :
                    n < m => Dist2(vectors[ids[n]], q) <= Dist2(vectors[ids[m]], q)
              /\ \A i \in ChunkIds :
                    (CosAtLeast(vectors[i], q) /\ Cardinality(NotFarther(i, q)) <= k)
                    => \E n \in 1..Len(out) : ids[n] = i
              /\ (\A i \in ChunkIds : ~CosAtLeast(vectors[i], q)) => out = <<>>

\* C17 witness: of the three chunks nearest to the query one passes the
\* threshold and is returned; the nearest chunk is below the threshold, and
\* a chunk that passes it is the fourth nearest.
C17_Witness ==
    /\ frame[1].pc = "idle"
    /\ frame[1].op = "top_chunks"
    /\ frame[1].outcome = "returned"
    /\ frame[1].k = 3
    /\ frame[1].qvec = <<1, 0>>
    /\ frame[1].chunks = << <<"k", "1">> >>
    /\ CosAtLeast(vectors[3], <<1, 0>>)
    /\ ~CosAtLeast(vectors[2], <<1, 0>>)
    /\ Nearer(1, <<1, 0>>) = {2}

\* C15: a call of reset_memory(psid) returns without raising, also when
\* the user has no history; after it the user's history reads as empty and
\* every other user's history is as before; and on a store where the user
\* has no history, which is the store a first reset leaves, it changes
\* nothing, so two resets in a row leave the store as one does.
C15_ResetTotalIdempotent ==
    [][\A u \in Psids :
          (/\ Len(trace') = Len(trace) + 1
           /\ trace'[Len(trace')] = StoreOp("reset_memory", u, NoTurn))
          => /\ frame'[1].pc = "idle"
             /\ frame'[1].outcome = "returned"
             /\ frame'[1].exc = "none"
             /\ convo'[u] = NoList
             /\ \A v \in Psids \ {u} :
                   /\ convo'[v] = convo[v]
                   /\ convo[v] # NoList => heap'[convo[v]] = heap[convo[v]]
             /\ convo[u] = NoList => (convo' = convo /\ heap' = heap)]_vars

\* C15 witness: reset_memory has been called twice in a row for a user who
\* had a stored history, and the user's history reads as empty.
C15_Witness ==
    /\ AllIdle
    /\ Len(base["u1"]) > 0
    /\ Len(trace) = 2
    /\ trace[1] = StoreOp("reset_memory", "u1", NoTurn)
    /\ trace[2] = StoreOp("reset_memory", "u1", NoTurn)
    /\ frame[1].outcome = "returned"
    /\ Stored("u1") = <<>>
    /\ convo["u1"] = NoList

\* Two characters that are the same letter in either case, or equal.
SameChar(a, b) ==
    \/ a = b
    \/ \E i \in 1..26 : {a, b} = {UpperCase[i], LowerCase[i]}

\* Keyword w occurs in msg at some position, in any mix of cases.
Occurs(msg, w) ==
    \E i \in 0..(Len(msg) - Len(w)) :
        \A j \in 1..Len(w) : SameChar(msg[i + j], w[j])

\* C14: intent(msg) is cutoff when msg contains a cutoff keyword in any
\* case, whatever billing or outage keywords it also contains; otherwise
\* billing when it contains a billing keyword; otherwise outage when it
\* contains an outage keyword; otherwise general.
C14_IntentPriorityChain ==
    \A t \in Threads :
        (/\ frame[t].pc = "idle"
         /\ frame[t].op = "intent"
         /\ frame[t].outcome = "returned")
        => LET msg == frame[t].user_msg
           IN frame[t].category =
                 IF \E w \in CutoffWords : Occurs(msg, w) THEN "cutoff"
                 ELSE IF \E w \in BillingWords : Occurs(msg, w) THEN "billing"
                 ELSE IF \E w \in OutageWords : Occurs(msg, w) THEN "outage"
                 ELSE "general"

\* C14 witness: a message with a billing keyword before a cutoff keyword,
\* both in mixed case, is classified cutoff.
C14_Witness ==
    /\ frame[1].pc = "idle"
    /\ frame[1].op = "intent"
    /\ frame[1].user_msg = <<"m", "y", " ", "B", "i", "l", "l", " ", "C", "u", "t", "O", "f", "f">>
    /\ frame[1].category = "cutoff"

\* C18: no request is handled unless startup succeeded: when a handler call
\* has been entered, every required variable was present, the corpus was
\* embedded and the index holds as many vectors as the corpus has chunks;
\* with a variable missing, or after an abort, the process never serves.
C18_ServeOnlyAfterStartup ==
    /\ (calls > 0 \/ \E t \in Threads : frame[t].op # "none")
          => /\ boot.phase = "serving"
             /\ EnvVars \subseteq boot.env
             /\ boot.nvec = Len(knowledge_chunks)
             /\ boot.ntotal = Len(knowledge_chunks)
    /\ boot.phase = "serving"
          => /\ EnvVars \subseteq boot.env
             /\ boot.ntotal = Len(knowledge_chunks)
    /\ boot.phase = "aborted" => calls = 0

\* C18 witness: startup ran from the checks to serving, and a message is
\* being handled.
C18_Witness ==
    /\ boot.phase = "serving"
    /\ boot.ntotal = Len(knowledge_chunks)
    /\ calls = 1
    /\ frame[1].op = "generate_reply"

\* The user the running or entered call of thread t is for.
ActingPsid(t) == IF frame[t].pc = "idle" THEN frame'[t].psid ELSE frame[t].psid

\* C21: a step of remember, reset_memory or generate_reply for user a
\* leaves the stored sequence of every other user as it was, and the history
\* part of the first model request for a is a's stored sequence: every turn
\* in it was recorded under a.
C21_UserIsolation ==
    [][/\ \A b \in Psids \ {ActingPsid(1)} :
             /\ convo'[b] = convo[b]
             /\ convo[b] # NoList => heap'[convo[b]] = heap[convo[b]]
       /\ (Len(frame[1].sent) = 0 /\ Len(frame'[1].sent) = 1)
             => LET a == frame[1].psid
                    ms == frame'[1].sent[1].messages
                    h == SubSeq(ms, 2, Len(ms) - 1)
                    own == base[a] \o log[a]
                IN /\ Len(h) = Len(Stored(a))
                   /\ \A i \in 1..Len(h) :
                         /\ h[i] = Message(Stored(a)[i].role, Stored(a)[i].text,
                                           "", NoCall)
                         /\ \E j \in 1..Len(own) :
                               own[j] = Turn(h[i].role, h[i].content)]_vars

\* C21 witness: a turn of user u2 has been answered by the model while
\* user u1's full history is stored untouched.
C21_Witness ==
    /\ frame[1].pc = "idle"
    /\ frame[1].op = "generate_reply"
    /\ frame[1].psid = "u2"
    /\ frame[1].outcome = "returned"
    /\ Len(frame[1].sent) >= 1
    /\ Len(Stored("u2")) = 2
    /\ Stored("u1") = History(2 * MAX_TURNS)

\* C24: once the process serves, no step of generate_reply, top_chunks,
\* remember or reset_memory changes the chunk list, the vectors or the size
\* of the index.
C24_CorpusReadOnly ==
    [][boot.phase = "serving"
          => /\ boot'.chunks = boot.chunks
             /\ boot'.vecs = boot.vecs
             /\ boot'.ntotal = boot.ntotal
             /\ boot'.phase = "serving"]_vars

\* C24 witness: a turn that searched the index and stored its two turns
\* has returned, and the corpus, the vectors and the index size are those
\* built at startup.
C24_Witness ==
    /\ frame[1].pc = "idle"
    /\ frame[1].op = "generate_reply"
    /\ frame[1].outcome = "returned"
    /\ frame[1].nsearch = 1
    /\ Len(log[frame[1].psid]) >= 2
    /\ boot.chunks = knowledge_chunks
    /\ boot.vecs = vectors
    /\ boot.ntotal = Len(knowledge_chunks)

\* C22: when the response to the second model request is again a function
\* call, the turn reports it: it does not end by raising, and the reply it
\* returns is not the text that came with the call; no Gateway call or model
\* request follows.
C22_SecondInvocationReported ==
    \A t \in Threads :
        frame[t].again
        => /\ frame[t].outcome # "raised"
           /\ frame[t].nreq = 2
           /\ frame[t].ngw = 1
           /\ frame[t].pc = "idle" =>
                 /\ frame[t].outcome = "returned"
                 /\ \A c \in Contents : frame[t].reply # Strip(c)

\* x is raw without the whitespace around it.
TrimOf(raw, x) ==
    \E a \in 0..(Len(raw) - Len(x)) :
        /\ \A i \in 1..a : raw[i] \in Whitespace
        /\ \A i \in 1..Len(x) : raw[a + i] = x[i]
        /\ \A i \in (a + Len(x) + 1)..Len(raw) : raw[i] \in Whitespace
        /\ Len(x) > 0 => (x[1] \notin Whitespace /\ x[Len(x)] \notin Whitespace)

\* raw is the word w in any mix of cases with whitespace around it.
IsWord(raw, w) ==
    \E a \in 0..(Len(raw) - Len(w)) :
        /\ \A i \in 1..a : raw[i] \in Whitespace
        /\ \A i \in 1..Len(w) : SameChar(raw[a + i], w[i])
        /\ \A i \in (a + Len(w) + 1)..Len(raw) : raw[i] \in Whitespace

IsCommand(raw) ==
    \/ IsWord(raw, <<"r", "e", "s", "e", "t">>)
    \/ IsWord(raw, <<"r", "e", "s", "t", "a", "r", "t">>)

\* C23: a text event whose trimmed, lower-cased text is reset or restart
\* clears the sender's history without entering generate_reply, so the
\* history is empty afterwards and nothing is recorded for anyone; every
\* other text event enters generate_reply once, with the trimmed text.
C23_ResetCommandDispatch ==
    [][frame[1].pc = "idle" =>
          \A u \in Psids, raw \in EventTexts :
             fb_webhook(1, u, raw)
             => IF IsCommand(raw)
                THEN /\ frame'[1].op = "reset_memory"
                     /\ frame'[1].pc = "idle"
                     /\ convo'[u] = NoList
                     /\ log'[u] = <<>>
                     /\ \A v \in Psids \ {u} : log'[v] = log[v]
                ELSE /\ frame'[1].op = "generate_reply"
                     /\ frame'[1].psid = u
                     /\ TrimOf(raw, frame'[1].user_msg)
                     /\ calls' = calls + 1]_vars

\* C23 witness: a reset command has cleared the full history of its
\* sender, and generate_reply was not entered.
C23_Witness ==
    /\ frame[1].pc = "idle"
    /\ frame[1].op = "reset_memory"
    /\ frame[1].psid = "u1"
    /\ calls = 1
    /\ Len(base["u1"]) = 2 * MAX_TURNS
    /\ convo["u1"] = NoList
    /\ frame[1].nreq = 0

====
